---- MODULE Spec2Model ----
(***************************************************************************)
(* Link-layer transport of KPiX-Lycoris (generic/):                        *)
(*   - PgpCardG3Link   : asynchronous link, a receive thread (rxHandler)   *)
(*                       and a transmit scheduler thread (ioHandler)       *)
(*                       sharing request/response counters and regBuff_.   *)
(*   - MultDestPgpMask : synchronous link, transmit() and receive() run in *)
(*                       the caller's thread.                              *)
(* A 32-bit word is the pair <<hi, lo>> of its 16-bit halves.              *)
(***************************************************************************)
EXTENDS Integers, Sequences, FiniteSets, TLC

\* ------------------------------------------------------------------------
\* 32-bit words
\* ------------------------------------------------------------------------
Half == 2 ^ 16

W(hi, lo) == <<hi, lo>>

Zero == W(0, 0)

RECURSIVE And16(_, _)
And16(a, b) == IF a = 0 \/ b = 0 THEN 0
               ELSE (a % 2) * (b % 2) + 2 * And16(a \div 2, b \div 2)

RECURSIVE Or16(_, _)
Or16(a, b) == IF a = 0 THEN b
              ELSE IF b = 0 THEN a
              ELSE (IF a % 2 = 1 \/ b % 2 = 1 THEN 1 ELSE 0)
                   + 2 * Or16(a \div 2, b \div 2)

\* a & b
BitAnd(a, b) == W(And16(a[1], b[1]), And16(a[2], b[2]))

\* a | b
BitOr(a, b) == W(Or16(a[1], b[1]), Or16(a[2], b[2]))

\* a >> n, 0 <= n < 32
Shr(a, n) == IF n >= 16
             THEN W(0, a[1] \div (2 ^ (n - 16)))
             ELSE W(a[1] \div (2 ^ n),
                    (a[2] \div (2 ^ n)) + (a[1] % (2 ^ n)) * (2 ^ (16 - n)))

\* a << n truncated to 32 bits, 0 <= n < 32
Shl(a, n) == IF n >= 16
             THEN W((a[2] % (2 ^ (32 - n))) * (2 ^ (n - 16)), 0)
             ELSE W((a[1] % (2 ^ (16 - n))) * (2 ^ n) + (a[2] \div (2 ^ (16 - n))),
                    (a[2] % (2 ^ (16 - n))) * (2 ^ n))

\* a - 1 in uint32_t arithmetic
Dec32(a) == IF a[2] > 0 THEN W(a[1], a[2] - 1)
            ELSE IF a[1] > 0 THEN W(a[1] - 1, Half - 1)
            ELSE W(Half - 1, Half - 1)

\* a small natural number as a word, and the low bits of a word as a number
ToWord(n) == W(n \div Half, n % Half)

Low(a) == a[2]

NonZero(a) == a # Zero

\* the word whose four bytes are all b (memset)
ByteFill(b) == W(b * 256 + b, b * 256 + b)

\* C index i of a word buffer
At(buf, i) == buf[i + 1]

\* memcpy(&dst[at], src, n*4)
CopyInto(dst, at, src, n) ==
    [i \in 1..Len(dst) |-> IF i - 1 >= at /\ i - 1 < at + n
                           THEN src[i - at] ELSE dst[i]]

\* ------------------------------------------------------------------------
\* Bounds
\* ------------------------------------------------------------------------
\* largest register size (words) a caller posts
MaxSize == 2
\* cap on the requests posted on the link
MaxPosts == 3
\* cap on the register requests posted on the register path
MaxRegs == 2
\* cap on the failed sends of one call of the synchronous transmit
MaxTries == 3
\* cap on the number of frames the receive thread is handed
MaxRx == 2

\* ------------------------------------------------------------------------
\* Inputs of the asynchronous link
\* ------------------------------------------------------------------------
WA == W(0, \hAAAA)

WB == W(0, \hBBBB)

\* register addresses: bits 31:28 lane, 27:24 vc, 23:0 register
RegAddrs == {W(\h0000, \h0010), W(\h2100, \h0024)}

\* opcodes: bits 15:12 lane, 11:8 vc, 7:0 command
OpCodes == {W(0, \h0005), W(0, \h2107)}

\* data destinations: bits 7:4 one-hot lane, bits 3:0 one-hot vc
DataAddrs == {W(0, \h0011), W(0, \h0042)}

\* configured data source masks: bits 11:4 lane mask, bits 3:0 vc mask
DataSources == {W(0, \h0041), W(0, \h0012)}

\* register contents: the two alternating patterns of each size
Pattern(n, a, b) == [i \in 1..n |-> IF i % 2 = 1 THEN a ELSE b]

RegData(n) == {Pattern(n, WA, WB), Pattern(n, WB, WA)}

\* a Register object of the caller
Register(a, d, st) == [valid |-> TRUE, address |-> a, data |-> d,
                       size |-> Len(d), status |-> st]

NullReg == [valid |-> FALSE, address |-> Zero, data |-> <<>>,
            size |-> 0, status |-> Zero]

\* the content of memory that was allocated and not written yet
Junk == W(\hDEAD, \hBEEF)

NoTx == [cls |-> "none", buf |-> <<>>, size |-> 0, lane |-> 0, vc |-> 0, ret |-> 0]

NoRx == [ret |-> 0, buf |-> <<>>, lane |-> 0, vc |-> 0,
         eofe |-> 0, fifoErr |-> 0, lengthErr |-> 0]

NoCall == [pc |-> "idle", type |-> "none", reg |-> NullReg, context |-> Zero,
           config |-> Zero, txData |-> <<>>, txSize |-> 0,
           lane |-> 0, vc |-> 0, ret |-> 0, tries |-> 0, result |-> 0]

\* receive() before its first call: nothing received, the caller's type,
\* context and ptr not set
NoRecv == [frame |-> NoRx, result |-> 0, type |-> "none", context |-> Zero,
           ptr |-> "none"]

Classes == {"run", "reg", "cmd", "data"}

VARIABLES
    runEnable_,      \* shared run flag
    runReqCnt_, runReqEntry_,
    regReqCnt_, regRespCnt_, regReqEntry_, regReqWrite_,
    cmdReqCnt_, cmdRespCnt_, cmdReqEntry_,
    dataReqCnt_, dataRespCnt_, dataReqAddr_, dataReqLength_, dataReqEntry_,
    dataSource_, dataQueue_, errorCount_, unexpCount_,
    regBuff_,        \* [state, words]; state: "unalloc", "raw" (allocated, no
                     \* header written yet), "valid", "freed"
    ioPc, lastReqCnt, lastCmdCnt, lastRunCnt, lastDataCnt,
    rxPc, rx,        \* rx: the locals rxHandler got from pgpcard_recv
    tx,              \* the last call of pgpcard_send and its return value
    cyclePend,       \* classes pending when the current scheduler cycle began
    cycleSent,       \* frames handed to pgpcard_send in the current cycle
    rxCount,         \* frames received so far
    fault,           \* "none"; "wild" once a read was undefined; "segv" once
                     \* the process has crashed
    link,            \* the class of the link object: "PgpCardG3Link" or "MultDestPgpMask"
    txData_,         \* MultDestPgpMask: the transmit buffer of the object
    xmit,            \* MultDestPgpMask::transmit: position, locals and result
    rxRegister_,     \* MultDestPgpMask: the Register that receive() fills
    rcv              \* MultDestPgpMask::receive: the frame of the last call, its
                     \* return value and the caller's type, context and ptr

runVars  == <<runReqCnt_, runReqEntry_>>
regVars  == <<regReqCnt_, regRespCnt_, regReqEntry_, regReqWrite_>>
cmdVars  == <<cmdReqCnt_, cmdRespCnt_, cmdReqEntry_>>
dataVars == <<dataReqCnt_, dataRespCnt_, dataReqAddr_, dataReqLength_, dataReqEntry_>>
rxVars   == <<dataQueue_, errorCount_, unexpCount_, rxPc, rx, rxCount>>
ioVars   == <<ioPc, lastReqCnt, lastCmdCnt, lastRunCnt, lastDataCnt, tx,
              cyclePend, cycleSent>>

recvVars == <<rxRegister_, rcv>>

syncVars == <<link, txData_, xmit, recvVars>>

vars == <<runEnable_, runVars, regVars, cmdVars, dataVars, dataSource_, rxVars,
          regBuff_, ioVars, fault, syncVars>>

\* the asynchronous link right after open(): the flag is set and both threads
\* were created
Init ==
    /\ link = "PgpCardG3Link"
    /\ txData_ = <<>>
    /\ xmit = NoCall
    /\ rxRegister_ = NullReg
    /\ rcv = NoRecv
    /\ runEnable_ = TRUE
    /\ runReqCnt_ = 0 /\ runReqEntry_ = Zero
    /\ regReqCnt_ = 0 /\ regRespCnt_ = 0
    /\ regReqEntry_ = NullReg /\ regReqWrite_ = FALSE
    /\ cmdReqCnt_ = 0 /\ cmdRespCnt_ = 0 /\ cmdReqEntry_ = Zero
    /\ dataReqCnt_ = 0 /\ dataRespCnt_ = 0
    /\ dataReqAddr_ = Zero /\ dataReqLength_ = 0 /\ dataReqEntry_ = <<>>
    /\ dataSource_ \in DataSources
    /\ dataQueue_ = <<>> /\ errorCount_ = 0 /\ unexpCount_ = 0
    /\ regBuff_ = [state |-> "unalloc", words |-> <<>>]
    /\ ioPc = "start"
    /\ lastReqCnt = 0 /\ lastCmdCnt = 0 /\ lastRunCnt = 0 /\ lastDataCnt = 0
    /\ rxPc = "loop" /\ rx = NoRx
    /\ tx = NoTx
    /\ cyclePend = {} /\ cycleSent = 0
    /\ rxCount = 0
    /\ fault = "none"

\* ------------------------------------------------------------------------
\* Callers (CommLink): post a request by filling the slot and counting it
\* ------------------------------------------------------------------------
PostRun(op) ==
    /\ runReqEntry_' = op
    /\ runReqCnt_' = runReqCnt_ + 1
    /\ UNCHANGED <<runEnable_, regVars, cmdVars, dataVars, dataSource_, rxVars,
                   regBuff_, ioVars, fault, syncVars>>

PostRegister(a, d, write) ==
    /\ regReqCnt_ = regRespCnt_
    /\ regReqEntry_' = Register(a, d, Zero)
    /\ regReqWrite_' = write
    /\ regReqCnt_' = regReqCnt_ + 1
    /\ UNCHANGED <<runEnable_, runVars, regRespCnt_, cmdVars, dataVars, dataSource_,
                   rxVars, regBuff_, ioVars, fault, syncVars>>

PostCommand(op) ==
    /\ cmdReqCnt_ = cmdRespCnt_
    /\ cmdReqEntry_' = op
    /\ cmdReqCnt_' = cmdReqCnt_ + 1
    /\ UNCHANGED <<runEnable_, runVars, regVars, cmdRespCnt_, dataVars, dataSource_,
                   rxVars, regBuff_, ioVars, fault, syncVars>>

PostData(a, n) ==
    /\ dataReqCnt_ = dataRespCnt_
    /\ dataReqAddr_' = a
    /\ dataReqLength_' = n
    /\ dataReqEntry_' = [i \in 1..n |-> WA]
    /\ dataReqCnt_' = dataReqCnt_ + 1
    /\ UNCHANGED <<runEnable_, runVars, regVars, cmdVars, dataRespCnt_, dataSource_,
                   rxVars, regBuff_, ioVars, fault, syncVars>>

\* close(): the run flag is cleared
Close ==
    /\ runEnable_
    /\ runEnable_' = FALSE
    /\ UNCHANGED <<runVars, regVars, cmdVars, dataVars, dataSource_, rxVars,
                   regBuff_, ioVars, fault, syncVars>>

\* ------------------------------------------------------------------------
\* ioHandler: the transmit scheduler thread
\* ------------------------------------------------------------------------
\* Nibble with the mask of a byte
Nibble_Byte(w, sh) == Low(BitAnd(Shr(w, sh), W(0, \hFF)))

\* (w >> sh) & 0xF
Nibble(w, sh) == Low(BitAnd(Shr(w, sh), W(0, \hF)))

\* while (bits >>= 1) idx++
RECURSIVE ShiftCount(_)
ShiftCount(bits) == IF bits \div 2 = 0 THEN 0 ELSE 1 + ShiftCount(bits \div 2)

\* the value pgpcard_send may return for n words: n, or a negative error
SendRets(n) == {-1, n}

Pending == {c \in Classes :
               \/ c = "run"  /\ lastRunCnt  # runReqCnt_
               \/ c = "reg"  /\ lastReqCnt  # regReqCnt_
               \/ c = "cmd"  /\ lastCmdCnt  # cmdReqCnt_
               \/ c = "data" /\ lastDataCnt # dataReqCnt_}

Send(cls, buf, n, lane, vc, r) ==
    /\ tx' = [cls |-> cls, buf |-> SubSeq(buf, 1, n), size |-> n,
              lane |-> lane, vc |-> vc, ret |-> r]
    /\ cycleSent' = cycleSent + 1

\* command / run-control frame
OpFrame(op) == <<Zero, BitAnd(op, W(0, \hFF)), Zero, Zero>>

\* the register header and body written into regBuff_
RegFrame(words, entry, write) ==
    LET w1 == BitOr(IF write THEN W(\h4000, 0) ELSE Zero,
                    BitAnd(entry.address, W(\h00FF, \hFFFF)))
        hdr == [words EXCEPT ![1] = Zero, ![2] = w1]
    IN  IF write
        THEN [CopyInto(hdr, 2, entry.data, entry.size)
                 EXCEPT ![entry.size + 3] = Zero]
        ELSE [hdr EXCEPT ![3] = Dec32(ToWord(entry.size)), ![4] = Zero]

RegTxSize(entry, write) == IF write THEN entry.size + 3 ELSE 4

\* the bookkeeping of a cycle ends with the cycle
EndCycle ==
    /\ ioPc' = "loop"
    /\ cyclePend' = {}
    /\ cycleSent' = 0
    /\ tx' = NoTx

\* lines 168-174
IoSetup ==
    /\ ioPc = "start"
    /\ lastReqCnt' = regReqCnt_
    /\ lastCmdCnt' = cmdReqCnt_
    /\ lastRunCnt' = runReqCnt_
    /\ lastDataCnt' = dataReqCnt_
    /\ regBuff_' = [state |-> "raw", words |-> [i \in 1..(MaxSize + 3) |-> Junk]]
    /\ ioPc' = "loop"
    /\ UNCHANGED <<runEnable_, runVars, regVars, cmdVars, dataVars, dataSource_,
                   rxVars, tx, cyclePend, cycleSent, fault, syncVars>>

\* Ladder with the register test ahead of the run-control test
Ladder_RegFirst(p) ==
    IF "reg" \in p THEN "regBuild"
    ELSE IF "run" \in p THEN "runSend"
    ELSE IF "cmd" \in p THEN "cmdSend"
    ELSE IF "data" \in p THEN "dataSend"
    ELSE "loop"

\* the if / else-if ladder of lines 180, 200, 231, 252, 270: the branch taken
\* when the classes of p are pending
Ladder(p) ==
    IF "run" \in p THEN "runSend"
    ELSE IF "reg" \in p THEN "regBuild"
    ELSE IF "cmd" \in p THEN "cmdSend"
    ELSE IF "data" \in p THEN "dataSend"
    ELSE "loop"

\* One pass of the while loop up to the branch it takes.  Each condition reads
\* one counter that only callers write, so the four reads are taken together;
\* with nothing pending the thread waits (ioThreadWait) and tests again.
IoLoop ==
    /\ ioPc = "loop"
    /\ IF runEnable_
       THEN /\ ioPc' = Ladder(Pending)
            /\ cyclePend' = IF Ladder(Pending) = "loop" THEN {} ELSE Pending
            /\ cycleSent' = 0
       ELSE /\ ioPc' = "free"
            /\ UNCHANGED <<cyclePend, cycleSent>>
    /\ UNCHANGED <<runEnable_, runVars, regVars, cmdVars, dataVars, dataSource_,
                   rxVars, regBuff_, lastReqCnt, lastCmdCnt, lastRunCnt,
                   lastDataCnt, tx, fault, syncVars>>

\* lines 183-193
IoRunSend ==
    /\ ioPc = "runSend"
    /\ \E r \in SendRets(4) :
          Send("run", OpFrame(runReqEntry_), 4,
               Nibble(runReqEntry_, 12), Nibble(runReqEntry_, 8), r)
    /\ ioPc' = "runMatch"
    /\ UNCHANGED <<runEnable_, runVars, regVars, cmdVars, dataVars, dataSource_,
                   rxVars, regBuff_, lastReqCnt, lastCmdCnt, lastRunCnt,
                   lastDataCnt, cyclePend, fault, syncVars>>

\* line 196
IoRunMatch ==
    /\ ioPc = "runMatch"
    /\ lastRunCnt' = runReqCnt_
    /\ EndCycle
    /\ UNCHANGED <<runEnable_, runVars, regVars, cmdVars, dataVars, dataSource_,
                   rxVars, regBuff_, lastReqCnt, lastCmdCnt, lastDataCnt, fault, syncVars>>

\* lines 203-217
IoRegBuild ==
    /\ ioPc = "regBuild"
    /\ regBuff_' = [state |-> "valid",
                    words |-> RegFrame(regBuff_.words, regReqEntry_, regReqWrite_)]
    /\ ioPc' = "regSend"
    /\ UNCHANGED <<runEnable_, runVars, regVars, cmdVars, dataVars, dataSource_,
                   rxVars, lastReqCnt, lastCmdCnt, lastRunCnt, lastDataCnt, tx,
                   cyclePend, cycleSent, fault, syncVars>>

\* lines 220-224
IoRegSend ==
    /\ ioPc = "regSend"
    /\ \E r \in SendRets(RegTxSize(regReqEntry_, regReqWrite_)) :
          Send("reg", regBuff_.words, RegTxSize(regReqEntry_, regReqWrite_),
               Nibble(regReqEntry_.address, 28), Nibble(regReqEntry_.address, 24), r)
    /\ ioPc' = "regMatch"
    /\ UNCHANGED <<runEnable_, runVars, regVars, cmdVars, dataVars, dataSource_,
                   rxVars, regBuff_, lastReqCnt, lastCmdCnt, lastRunCnt,
                   lastDataCnt, cyclePend, fault, syncVars>>

\* IoRegMatch that counts the response as the command and data branches do
IoRegMatch_FireForget ==
    /\ ioPc = "regMatch"
    /\ lastReqCnt' = regReqCnt_
    /\ regRespCnt_' = regRespCnt_ + 1
    /\ EndCycle
    /\ UNCHANGED <<runEnable_, runVars, regReqCnt_, regReqEntry_, regReqWrite_,
                   cmdVars, dataVars, dataSource_, rxVars, regBuff_, lastCmdCnt,
                   lastRunCnt, lastDataCnt, fault, syncVars>>

\* IoRegMatch advancing the serviced counter only after a send that succeeded
IoRegMatch_IfSent ==
    /\ ioPc = "regMatch"
    /\ lastReqCnt' = IF tx.ret < 0 THEN lastReqCnt ELSE regReqCnt_
    /\ EndCycle
    /\ UNCHANGED <<runEnable_, runVars, regVars, cmdVars, dataVars, dataSource_,
                   rxVars, regBuff_, lastCmdCnt, lastRunCnt, lastDataCnt, fault,
                   syncVars>>

\* line 227
IoRegMatch ==
    /\ ioPc = "regMatch"
    /\ lastReqCnt' = regReqCnt_
    /\ EndCycle
    /\ UNCHANGED <<runEnable_, runVars, regVars, cmdVars, dataVars, dataSource_,
                   rxVars, regBuff_, lastCmdCnt, lastRunCnt, lastDataCnt, fault, syncVars>>

\* lines 234-244
IoCmdSend ==
    /\ ioPc = "cmdSend"
    /\ \E r \in SendRets(4) :
          Send("cmd", OpFrame(cmdReqEntry_), 4,
               Nibble(cmdReqEntry_, 12), Nibble(cmdReqEntry_, 8), r)
    /\ ioPc' = "cmdMatch"
    /\ UNCHANGED <<runEnable_, runVars, regVars, cmdVars, dataVars, dataSource_,
                   rxVars, regBuff_, lastReqCnt, lastCmdCnt, lastRunCnt,
                   lastDataCnt, cyclePend, fault, syncVars>>

\* lines 247-248
IoCmdMatch ==
    /\ ioPc = "cmdMatch"
    /\ lastCmdCnt' = cmdReqCnt_
    /\ cmdRespCnt_' = cmdRespCnt_ + 1
    /\ EndCycle
    /\ UNCHANGED <<runEnable_, runVars, regVars, cmdReqCnt_, cmdReqEntry_, dataVars,
                   dataSource_, rxVars, regBuff_, lastReqCnt, lastRunCnt,
                   lastDataCnt, fault, syncVars>>

\* lines 255-263
IoDataSend ==
    /\ ioPc = "dataSend"
    /\ \E r \in SendRets(dataReqLength_) :
          Send("data", dataReqEntry_, dataReqLength_,
               ShiftCount(Nibble(dataReqAddr_, 4)),
               ShiftCount(Nibble(dataReqAddr_, 0)), r)
    /\ ioPc' = "dataMatch"
    /\ UNCHANGED <<runEnable_, runVars, regVars, cmdVars, dataVars, dataSource_,
                   rxVars, regBuff_, lastReqCnt, lastCmdCnt, lastRunCnt,
                   lastDataCnt, cyclePend, fault, syncVars>>

\* lines 266-267
IoDataMatch ==
    /\ ioPc = "dataMatch"
    /\ lastDataCnt' = dataReqCnt_
    /\ dataRespCnt_' = dataRespCnt_ + 1
    /\ EndCycle
    /\ UNCHANGED <<runEnable_, runVars, regVars, cmdVars, dataReqCnt_, dataReqAddr_,
                   dataReqLength_, dataReqEntry_, dataSource_, rxVars, regBuff_,
                   lastReqCnt, lastCmdCnt, lastRunCnt, fault, syncVars>>

\* line 273
IoFree ==
    /\ ioPc = "free"
    /\ regBuff_' = [regBuff_ EXCEPT !.state = "freed"]
    /\ ioPc' = "done"
    /\ UNCHANGED <<runEnable_, runVars, regVars, cmdVars, dataVars, dataSource_,
                   rxVars, lastReqCnt, lastCmdCnt, lastRunCnt, lastDataCnt, tx,
                   cyclePend, cycleSent, fault, syncVars>>

\* ------------------------------------------------------------------------
\* rxHandler: the receive thread
\* ------------------------------------------------------------------------
Frame(buf, lane, vc, eofe, fifoErr, lengthErr) ==
    [ret |-> Len(buf), buf |-> buf, lane |-> lane, vc |-> vc,
     eofe |-> eofe, fifoErr |-> fifoErr, lengthErr |-> lengthErr]

\* the register of the register path: lane 2, vc 1, register 0x10
RegAddr == W(\h2100, \h0010)

RdHdr == <<Zero, W(0, \h0010)>>

WrHdr == <<Zero, W(\h4000, \h0010)>>

Statuses == {Zero, W(0, 3)}

\* responses to a read or a write of RegAddr, of every size
Responses ==
    {h \o p \o <<st>> : h \in {RdHdr, WrHdr},
                        p \in UNION {RegData(n) : n \in 1..MaxSize},
                        st \in Statuses}

\* frames whose word 0 or word 1 is not the header of a request
Foreign == {<<W(0, 1), W(0, \h0010), WA, Zero>>,
            <<Zero, W(0, \h0024), WA, WB, W(0, 3)>>}

ShortContents == {<<Zero>>, <<Zero, W(0, \h0010)>>, <<Zero, W(0, \h0010), Zero>>}

\* the frames pgpcard_recv may return (ret > 0)
Frames ==
    {Frame(c, 2, 1, 0, 0, 0) : c \in Responses \cup Foreign \cup ShortContents}
    \cup {Frame(c, lv[1], lv[2], 0, 0, 0) :
             c \in {RdHdr \o <<WA, Zero>>, WrHdr \o <<WB, W(0, 3)>>},
             lv \in {<<2, 0>>, <<0, 1>>, <<0, 0>>}}
    \cup {Frame(RdHdr \o <<WA, Zero>>, 2, 1, e[1], e[2], e[3]) :
             e \in {<<1, 0, 0>>, <<0, 1, 0>>, <<0, 0, 1>>}}
    \cup {Frame(RdHdr \o <<WA, Zero>>, 2, 0, 1, 0, 0)}

\* RxBad that tests the length only
RxBad_SizeOnly(f) == f.ret < 4

\* line 86: bad size or error
RxBad(f) == f.ret < 4 \/ f.eofe # 0 \/ f.fifoErr # 0 \/ f.lengthErr # 0

\* IsData with || in place of && on line 104
IsData_Or(src, lane, vc) ==
    \/ NonZero(BitAnd(Shl(W(0, 1), vc), BitAnd(src, W(0, \hF))))
    \/ NonZero(BitAnd(Shl(W(0, 1), lane), BitAnd(Shr(src, 4), W(0, \hFF))))

\* lines 99-104: the frame comes from the configured data source
IsData(src, lane, vc) ==
    LET vcMaskRx   == Shl(W(0, 1), vc)
        laneMaskRx == Shl(W(0, 1), lane)
        vcMask     == BitAnd(src, W(0, \hF))
        laneMask   == BitAnd(Shr(src, 4), W(0, \hFF))
    IN  NonZero(BitAnd(vcMaskRx, vcMask)) /\ NonZero(BitAnd(laneMaskRx, laneMask))

\* memcmp(rxBuff,regBuff_,8) == 0
HdrEqual(buf, words) == buf[1] = words[1] /\ buf[2] = words[2]

\* Line114 without the comparison of the sizes
Line114_NoSize(f) ==
    IF regBuff_.state = "valid" /\ regReqEntry_.valid
    THEN {IF HdrEqual(f.buf, regBuff_.words) THEN "match" ELSE "unexp"}
    ELSE {"unexp"}

\* line 114: what the comparison with the outstanding request yields.  Reading
\* regBuff_ before a header was written into it or outside its lifetime, or the
\* size of a request that was never posted, is undefined: the comparison may
\* come out either way, and a read through a bad pointer may end the process.
Line114(f) ==
    LET hdr == CASE regBuff_.state = "valid" ->
                      {IF HdrEqual(f.buf, regBuff_.words) THEN "eq" ELSE "ne"}
                 [] regBuff_.state = "raw" -> {"eq", "ne"}
                 [] OTHER -> {"eq", "ne", "segv"}
    IN  {IF h = "eq"
         THEN IF ~regReqEntry_.valid THEN "segv"
              ELSE IF f.ret - 3 = regReqEntry_.size THEN "match" ELSE "unexp"
         ELSE IF h = "ne" THEN "unexp" ELSE "segv" : h \in hdr}

\* the process state after the comparison came out as o
Fault(o) == IF o = "segv" THEN "segv"
            ELSE IF regBuff_.state # "valid" THEN "wild"
            ELSE fault

\* Deliver that leaves the buffer alone when the status is not zero
Deliver_NoFill(entry, write, buf, ret) ==
    LET st == At(buf, ret - 1)
        d  == IF write \/ st # Zero THEN entry.data
              ELSE CopyInto(entry.data, 0, SubSeq(buf, 3, ret), entry.size)
    IN  [entry EXCEPT !.data = d, !.status = st]

\* Deliver that copies from word 1 of the frame instead of word 2
Deliver_Shifted(entry, write, buf, ret) ==
    LET st == At(buf, ret - 1)
        d  == IF write THEN entry.data
              ELSE IF st = Zero
                   THEN CopyInto(entry.data, 0, SubSeq(buf, 2, ret), entry.size)
                   ELSE [i \in 1..entry.size |-> ByteFill(\hFF)]
    IN  [entry EXCEPT !.data = d, !.status = st]

\* Deliver that treats the answer to a write like the answer to a read
Deliver_CopyOnWrite(entry, write, buf, ret) ==
    LET st == At(buf, ret - 1)
        d  == IF st = Zero
              THEN CopyInto(entry.data, 0, SubSeq(buf, 3, ret), entry.size)
              ELSE [i \in 1..entry.size |-> ByteFill(\hFF)]
    IN  [entry EXCEPT !.data = d, !.status = st]

\* lines 115-120: the response is handed to the caller's Register
Deliver(entry, write, buf, ret) ==
    LET st == At(buf, ret - 1)
        d  == IF write THEN entry.data
              ELSE IF st = Zero
                   THEN CopyInto(entry.data, 0, SubSeq(buf, 3, ret), entry.size)
                   ELSE [i \in 1..entry.size |-> ByteFill(\hFF)]
    IN  [entry EXCEPT !.data = d, !.status = st]

\* Push at the head of the queue
Push_Front(queue, data) == <<data>> \o queue

\* line 106: dataQueue_.push(data)
Push(queue, data) == Append(queue, data)

\* RxLoop that never tests the flag
RxLoop_Forever ==
    /\ rxPc = "loop"
    /\ rxPc' = "recv"
    /\ rx' = NoRx
    /\ UNCHANGED <<runEnable_, runVars, regVars, cmdVars, dataVars, dataSource_,
                   dataQueue_, errorCount_, unexpCount_, rxCount, regBuff_,
                   ioVars, fault, syncVars>>

\* line 62; the locals of the previous pass are dead from here on
RxLoop ==
    /\ rxPc = "loop"
    /\ rxPc' = IF runEnable_ THEN "recv" ELSE "done"
    /\ rx' = NoRx
    /\ UNCHANGED <<runEnable_, runVars, regVars, cmdVars, dataVars, dataSource_,
                   dataQueue_, errorCount_, unexpCount_, rxCount, regBuff_,
                   ioVars, fault, syncVars>>

\* select() timed out, or pgpcard_recv returned no data
RxNoData ==
    /\ rxPc = "recv"
    /\ rxPc' = "loop"
    /\ UNCHANGED <<runEnable_, runVars, regVars, cmdVars, dataVars, dataSource_,
                   dataQueue_, errorCount_, unexpCount_, rx, rxCount, regBuff_,
                   ioVars, fault, syncVars>>

RxFrame(f) ==
    /\ rxPc = "recv"
    /\ rxCount < MaxRx
    /\ rx' = f
    /\ rxCount' = rxCount + 1
    /\ rxPc' = "loop"
    /\ IF RxBad(f)
       THEN /\ errorCount_' = errorCount_ + 1
            /\ UNCHANGED <<dataQueue_, unexpCount_, regVars, fault>>
       ELSE IF IsData(dataSource_, f.lane, f.vc)
       THEN /\ dataQueue_' = Push(dataQueue_, f.buf)
            /\ UNCHANGED <<errorCount_, unexpCount_, regVars, fault>>
       ELSE \E o \in Line114(f) :
               /\ fault' = Fault(o)
               /\ CASE o = "match" ->
                         /\ regReqEntry_' = Deliver(regReqEntry_, regReqWrite_,
                                                    f.buf, f.ret)
                         /\ regRespCnt_' = regRespCnt_ + 1
                         /\ UNCHANGED <<regReqCnt_, regReqWrite_, dataQueue_,
                                        errorCount_, unexpCount_>>
                    [] o = "unexp" ->
                         /\ unexpCount_' = unexpCount_ + 1
                         /\ UNCHANGED <<dataQueue_, errorCount_, regVars>>
                    [] o = "segv" ->
                         UNCHANGED <<dataQueue_, errorCount_, unexpCount_, regVars>>
    /\ UNCHANGED <<runEnable_, runVars, cmdVars, dataVars, dataSource_, regBuff_,
                   ioVars, syncVars>>

\* ------------------------------------------------------------------------
\* MultDestPgpMask: the synchronous link
\* ------------------------------------------------------------------------
MultTypes == {"MultTypeRegisterWrite", "MultTypeRegisterRead",
              "MultTypeCommand", "MultTypeData"}

\* register addresses handed to transmit()
SyncAddrs == {W(0, \h1000), W(\hFFFF, \h1006)}

Contexts == {Zero, W(\h1234, \h5678)}

\* LinkConfig words: data lane/vc, command lane/vc, register lane/vc, index
Configs == {W(\h1234, \h5607), W(\hF0E1, \hD2FF)}

\* SyncRegFrame that keeps the low two address bits
SyncRegFrame_NoShift(words, reg, isWrite, context) ==
    LET w1  == BitOr(IF isWrite THEN W(\h4000, 0) ELSE Zero,
                     BitAnd(reg.address, W(\h3FFF, \hFFFF)))
        hdr == [words EXCEPT ![1] = context, ![2] = w1]
    IN  IF isWrite
        THEN [CopyInto(hdr, 2, reg.data, reg.size) EXCEPT ![reg.size + 3] = Zero]
        ELSE [hdr EXCEPT ![3] = Dec32(ToWord(reg.size)), ![4] = Zero]

\* lines 101-127: the register frame written into txData_
SyncRegFrame(words, reg, isWrite, context) ==
    LET w1  == BitOr(IF isWrite THEN W(\h4000, 0) ELSE Zero,
                     BitAnd(Shr(reg.address, 2), W(\h3FFF, \hFFFF)))
        hdr == [words EXCEPT ![1] = context, ![2] = w1]
    IN  IF isWrite
        THEN [CopyInto(hdr, 2, reg.data, reg.size) EXCEPT ![reg.size + 3] = Zero]
        ELSE [hdr EXCEPT ![3] = Dec32(ToWord(reg.size)), ![4] = Zero]

\* lines 129-141: the command frame written into txData_
SyncCmdFrame(words, op) ==
    [words EXCEPT ![1] = Zero, ![2] = BitAnd(op, W(0, \hFF)), ![3] = Zero, ![4] = Zero]

\* lines 97-149: transmit() fills its buffer and resolves the destination
Transmit(type, reg, op, ptr, size, context, config) ==
    /\ xmit.pc = "idle"
    /\ LET isWrite == type = "MultTypeRegisterWrite"
           isReg   == type \in {"MultTypeRegisterWrite", "MultTypeRegisterRead"}
           buf     == IF isReg THEN SyncRegFrame(txData_, reg, isWrite, context)
                      ELSE IF type = "MultTypeCommand" THEN SyncCmdFrame(txData_, op)
                      ELSE txData_
           sh      == IF isReg THEN 8 ELSE IF type = "MultTypeCommand" THEN 16 ELSE 24
       IN  /\ txData_' = buf
           /\ xmit' = [pc     |-> "send",
                       type   |-> type,
                       reg    |-> reg,
                       context |-> context,
                       config |-> config,
                       txData |-> IF type = "MultTypeData" THEN ptr ELSE buf,
                       txSize |-> IF isReg THEN (IF isWrite THEN reg.size + 3 ELSE 4)
                                  ELSE IF type = "MultTypeCommand" THEN 4
                                  ELSE size \div 4,
                       lane   |-> Nibble(config, sh + 4),
                       vc     |-> Nibble(config, sh),
                       ret    |-> 0, tries |-> 0, result |-> 0]
    /\ UNCHANGED <<link, tx, recvVars>>

\* lines 151-154: one call of pgpcard_send; a negative return repeats the call
SyncSend ==
    /\ xmit.pc = "send"
    /\ \E r \in SendRets(xmit.txSize) \cup {0} :
          /\ r < 0 => xmit.tries < MaxTries
          /\ tx' = [cls |-> "sync", buf |-> SubSeq(xmit.txData, 1, xmit.txSize),
                    size |-> xmit.txSize, lane |-> xmit.lane, vc |-> xmit.vc,
                    ret |-> r]
          /\ xmit' = [xmit EXCEPT !.ret = r, !.tries = @ + 1,
                                  !.pc = IF r < 0 THEN "send" ELSE "return"]
    /\ UNCHANGED <<link, txData_, recvVars>>

\* SyncReturn handing back the word count as it is
SyncReturn_Words ==
    /\ xmit.pc = "return"
    /\ xmit' = [NoCall EXCEPT !.ret = xmit.ret, !.tries = xmit.tries,
                              !.result = xmit.ret]
    /\ tx' = NoTx
    /\ UNCHANGED <<link, txData_, recvVars>>

\* lines 156-157; the other locals of the call end with it
SyncReturn ==
    /\ xmit.pc = "return"
    /\ xmit' = [NoCall EXCEPT !.ret = xmit.ret, !.tries = xmit.tries,
                              !.result = IF xmit.ret > 0 THEN xmit.ret * 4
                                         ELSE xmit.ret]
    /\ tx' = NoTx
    /\ UNCHANGED <<link, txData_, recvVars>>

\* the data sources of the synchronous link: lane in bits 31:28, vc in 27:24
SyncDataSources == {W(\h2000, 0)}

isDataSource(dataSource) == dataSource \in SyncDataSources

\* what pgpcard_recv may hand to receive(): the frames of the link, a frame
\* longer than rxRegister_, no data (0), an error (-1)
RecvFrames ==
    Frames
    \cup {Frame(WrHdr \o [i \in 1..(MaxSize + 1) |-> WB] \o <<W(0, 3)>>, 2, 1, 0, 0, 0)}
    \cup {NoRx, [NoRx EXCEPT !.ret = -1]}

\* line 180: bad size or error
RecvBad(f) == f.ret < 4 \/ f.eofe # 0 \/ f.fifoErr # 0 \/ f.lengthErr # 0

\* lines 191-192
RecvSource(lane, vc) ==
    LET l == BitAnd(Shl(ToWord(lane), 28), W(\hF000, 0))
        v == BitAnd(Shl(ToWord(vc), 24), W(\h0F00, 0))
    IN  W(l[1] + v[1], 0)

\* lines 161-231: one call of receive(); type, context and ptr are the
\* caller's variables, left alone on the paths that return before setting them
Receive(f) ==
    /\ xmit.pc = "idle"
    /\ IF f.ret = 0
       THEN /\ rcv' = [rcv EXCEPT !.frame = f, !.result = 0]
            /\ UNCHANGED rxRegister_
       ELSE IF RecvBad(f)
       THEN /\ rcv' = [rcv EXCEPT !.frame = f, !.result = -1]
            /\ UNCHANGED rxRegister_
       ELSE IF isDataSource(RecvSource(f.lane, f.vc))
       THEN /\ rcv' = [frame |-> f, result |-> f.ret * 4, type |-> "MultTypeData",
                       context |-> Zero, ptr |-> "rxData_"]
            /\ UNCHANGED rxRegister_
       ELSE LET addressed == [rxRegister_ EXCEPT !.address = Shl(At(f.buf, 1), 2)]
                type == IF NonZero(BitAnd(At(f.buf, 1), W(\h4000, 0)))
                        THEN "MultTypeRegisterWrite" ELSE "MultTypeRegisterRead"
                out  == [frame |-> f, result |-> f.ret * 4, type |-> type,
                         context |-> At(f.buf, 0), ptr |-> "rxRegister_"]
            IN  IF f.ret - 3 > rxRegister_.size
                THEN /\ rxRegister_' = addressed
                     /\ rcv' = [out EXCEPT !.result = -1]
                ELSE /\ rxRegister_' =
                          [addressed EXCEPT
                              !.data = CopyInto(@, 0, SubSeq(f.buf, 3, f.ret - 1),
                                                f.ret - 3),
                              !.status = At(f.buf, f.ret - 1)]
                     /\ rcv' = out
    /\ UNCHANGED <<link, txData_, xmit, tx>>

asyncVars == <<runEnable_, runVars, regVars, cmdVars, dataVars, dataSource_, rxVars,
               regBuff_, ioPc, lastReqCnt, lastCmdCnt, lastRunCnt, lastDataCnt,
               cyclePend, cycleSent, fault>>

SyncReceive ==
    /\ link = "MultDestPgpMask"
    /\ \E f \in RecvFrames : Receive(f)
    /\ UNCHANGED asyncVars

\* the synchronous link right after open()
InitSync ==
    /\ link = "MultDestPgpMask"
    /\ txData_ = [i \in 1..(MaxSize + 3) |-> Junk]
    /\ xmit = NoCall
    /\ rxRegister_ = Register(Zero, [i \in 1..MaxSize |-> Zero], Zero)
    /\ rcv = NoRecv
    /\ runEnable_ = FALSE
    /\ runReqCnt_ = 0 /\ runReqEntry_ = Zero
    /\ regReqCnt_ = 0 /\ regRespCnt_ = 0
    /\ regReqEntry_ = NullReg /\ regReqWrite_ = FALSE
    /\ cmdReqCnt_ = 0 /\ cmdRespCnt_ = 0 /\ cmdReqEntry_ = Zero
    /\ dataReqCnt_ = 0 /\ dataRespCnt_ = 0
    /\ dataReqAddr_ = Zero /\ dataReqLength_ = 0 /\ dataReqEntry_ = <<>>
    /\ dataSource_ = Zero
    /\ dataQueue_ = <<>> /\ errorCount_ = 0 /\ unexpCount_ = 0
    /\ regBuff_ = [state |-> "unalloc", words |-> <<>>]
    /\ ioPc = "none"
    /\ lastReqCnt = 0 /\ lastCmdCnt = 0 /\ lastRunCnt = 0 /\ lastDataCnt = 0
    /\ rxPc = "none" /\ rx = NoRx
    /\ tx = NoTx
    /\ cyclePend = {} /\ cycleSent = 0
    /\ rxCount = 0
    /\ fault = "none"

\* the calls of the owner of the synchronous link
SyncCalls ==
    \/ \E type \in {"MultTypeRegisterWrite", "MultTypeRegisterRead"},
          a \in SyncAddrs, n \in 1..MaxSize, context \in Contexts, config \in Configs :
          \E d \in RegData(n) :
             Transmit(type, Register(a, d, Zero), Zero, <<>>, 0, context, config)
    \/ \E op \in OpCodes, config \in Configs :
          Transmit("MultTypeCommand", NullReg, op, <<>>, 0, Zero, config)
    \/ \E n \in 1..MaxSize, config \in Configs :
          Transmit("MultTypeData", NullReg, Zero, Pattern(n, WA, WB), 4 * n, Zero, config)

SyncLink ==
    /\ link = "MultDestPgpMask"
    /\ SyncCalls \/ SyncSend \/ SyncReturn
    /\ UNCHANGED asyncVars

\* the steps of a call that is under way
SyncRun == link = "MultDestPgpMask" /\ (SyncSend \/ SyncReturn) /\ UNCHANGED asyncVars

\* ------------------------------------------------------------------------
\* The transmit side: callers of the four classes and the scheduler
\* ------------------------------------------------------------------------
PostAny ==
    \/ \E op \in OpCodes : PostRun(op)
    \/ \E n \in 1..MaxSize, write \in BOOLEAN :
          \E d \in RegData(n) : PostRegister(RegAddr, d, write)
    \/ \E op \in OpCodes : PostCommand(op)
    \/ \E a \in DataAddrs : PostData(a, 1)

IoThread ==
    \/ IoSetup \/ IoLoop
    \/ IoRunSend \/ IoRunMatch
    \/ IoRegBuild \/ IoRegSend \/ IoRegMatch
    \/ IoCmdSend \/ IoCmdMatch
    \/ IoDataSend \/ IoDataMatch
    \/ IoFree

Posts == runReqCnt_ + regReqCnt_ + cmdReqCnt_ + dataReqCnt_

Next ==
    /\ fault # "segv"
    /\ \/ Posts < MaxPosts /\ PostAny
       \/ Close \/ IoThread

Spec == Init /\ [][Next]_vars

\* ------------------------------------------------------------------------
\* The register path and the receive side: register requests against the
\* frames of the link
\* ------------------------------------------------------------------------
PostReg ==
    \E n \in 1..MaxSize, write \in BOOLEAN :
       \E d \in RegData(n) : PostRegister(RegAddr, d, write)

IoRegThread ==
    \/ IoSetup \/ IoLoop
    \/ IoRegBuild \/ IoRegSend \/ IoRegMatch

RxThread ==
    \/ RxLoop \/ RxNoData
    \/ \E f \in Frames : RxFrame(f)

NextFrame ==
    \/ /\ link = "PgpCardG3Link"
       /\ fault # "segv"
       /\ \/ regReqCnt_ < MaxRegs /\ PostReg
          \/ IoRegThread \/ RxThread
    \/ SyncLink

SpecFrame == (Init \/ InitSync) /\ [][NextFrame]_vars

\* the synchronous link alone; the calling thread keeps running, and a send
\* that is tried again and again succeeds in the end
SpecSync ==
    /\ InitSync
    /\ [][SyncLink]_vars
    /\ WF_vars(SyncRun)
    /\ SF_vars(SyncRun /\ xmit'.pc = "return")

\* ------------------------------------------------------------------------
\* Properties
\* ------------------------------------------------------------------------
Async == link = "PgpCardG3Link"

\* a step of rxHandler that took a frame from pgpcard_recv (the frame is rx')
RxStep == rxPc = "recv" /\ rxCount' = rxCount + 1

\* the frame is long enough and carries no error flag
Clean(f) == f.ret >= 4 /\ f.eofe = 0 /\ f.fifoErr = 0 /\ f.lengthErr = 0

\* bit n of the low half of a word
Bit(w, n) == (w[2] \div (2 ^ n)) % 2

\* (lane, vc) of the frame lies in the data source mask: vc mask in bits 3:0,
\* lane mask in bits 11:4
FromDataSource(f) ==
    /\ f.vc < 4 /\ Bit(dataSource_, f.vc) = 1
    /\ f.lane < 8 /\ Bit(dataSource_, 4 + f.lane) = 1

\* the first two words of the frame are those of regBuff_
SameHeader(f) ==
    /\ regBuff_.state = "valid"
    /\ f.buf[1] = regBuff_.words[1]
    /\ f.buf[2] = regBuff_.words[2]

\* the frame answers the register request in the slot
Answers(f) ==
    /\ Clean(f) /\ ~FromDataSource(f)
    /\ SameHeader(f)
    /\ regReqEntry_.valid
    /\ f.ret - 3 = regReqEntry_.size

\* C1: with callers posting a request of a class only when its counters are
\* equal, requestCounter - responseCounter is 0 or 1 for the register, command
\* and data classes in every reachable state, whatever frames the link delivers
\* (stated for the runs in which every read was defined).
C1_CounterGap ==
    (Async /\ fault = "none")
          => /\ regReqCnt_ - regRespCnt_ \in {0, 1}
             /\ cmdReqCnt_ - cmdRespCnt_ \in {0, 1}
             /\ dataReqCnt_ - dataRespCnt_ \in {0, 1}

\* C2: an error-free control frame whose first two words differ from the header
\* in regBuff_, or whose length - 3 differs from the size of the request,
\* adds exactly 1 to unexpCount_ and leaves regRespCnt_ and the request's data
\* and status as they were.
C2_Unexpected ==
    [][(/\ RxStep
        /\ Clean(rx') /\ ~FromDataSource(rx')
        /\ regBuff_.state = "valid"
        /\ \/ ~SameHeader(rx')
           \/ regReqEntry_.valid /\ rx'.ret - 3 # regReqEntry_.size)
       => /\ unexpCount_' = unexpCount_ + 1
          /\ regRespCnt_' = regRespCnt_
          /\ regReqEntry_' = regReqEntry_]_vars

\* C2 witness: a frame with the header of the request but another size was counted
C2_Witness ==
    /\ Async /\ rxPc = "loop"
    /\ Clean(rx) /\ ~FromDataSource(rx)
    /\ SameHeader(rx)
    /\ regReqEntry_.valid /\ rx.ret - 3 # regReqEntry_.size
    /\ regReqCnt_ = 1 /\ regRespCnt_ = 0 /\ lastReqCnt = 1
    /\ unexpCount_ = 1

\* C3: an error-free frame of at least 4 words is pushed to dataQueue_ exactly
\* when 1<<vc meets bits 3:0 and 1<<lane meets bits 11:4 of dataSource_; a data
\* frame leaves regRespCnt_, unexpCount_ and the request alone even when it
\* carries the header of the request.  With vc mask 0001 and lane mask 00000100
\* lane 2 / vc 0 is data and lane 2 / vc 1 is control.
C3_Classification ==
    [][(RxStep /\ Clean(rx'))
       => /\ IF FromDataSource(rx')
             THEN /\ dataQueue_' = Append(dataQueue_, rx'.buf)
                  /\ regRespCnt_' = regRespCnt_
                  /\ unexpCount_' = unexpCount_
                  /\ regReqEntry_' = regReqEntry_
             ELSE dataQueue_' = dataQueue_
          /\ (dataSource_ = W(0, \h0041) /\ rx'.lane = 2 /\ rx'.vc = 0)
                => Len(dataQueue_') = Len(dataQueue_) + 1
          /\ (dataSource_ = W(0, \h0041) /\ rx'.lane = 2 /\ rx'.vc = 1)
                => Len(dataQueue_') = Len(dataQueue_)]_vars

\* C3 witness: a frame from the data source that carries the header and the
\* size of the outstanding request went to the queue
C3_Witness ==
    /\ Async /\ rxPc = "loop"
    /\ Clean(rx) /\ FromDataSource(rx)
    /\ dataSource_ = W(0, \h0041) /\ rx.lane = 2 /\ rx.vc = 0
    /\ SameHeader(rx)
    /\ regReqEntry_.valid /\ rx.ret - 3 = regReqEntry_.size
    /\ regReqCnt_ = 1 /\ regRespCnt_ = 0 /\ unexpCount_ = 0
    /\ dataQueue_ = <<rx.buf>>

\* the priority of a class: the smaller, the earlier in the ladder
Rank(c) == CASE c = "run" -> 0 [] c = "reg" -> 1 [] c = "cmd" -> 2 [] c = "data" -> 3

\* the class a position of the scheduler works for
StageClass(pc) ==
    CASE pc \in {"runSend", "runMatch"} -> "run"
      [] pc \in {"regBuild", "regSend", "regMatch"} -> "reg"
      [] pc \in {"cmdSend", "cmdMatch"} -> "cmd"
      [] pc \in {"dataSend", "dataMatch"} -> "data"
      [] OTHER -> "none"

Highest(c, p) == c \in p /\ \A d \in p : Rank(c) <= Rank(d)

\* C4: a cycle of the scheduler sends at most one frame, and the frame is of the
\* first class, in the order run-control, register, command, data, that was
\* pending when the cycle tested its conditions.
C4_Priority ==
    Async =>
       /\ cycleSent <= 1
       /\ cycleSent = 1 => Highest(tx.cls, cyclePend)
       /\ StageClass(ioPc) # "none" => Highest(StageClass(ioPc), cyclePend)
       /\ cyclePend # {} => StageClass(ioPc) # "none"

\* C4 witness: the register frame goes out while a command and data wait
C4_Witness ==
    /\ Async /\ ioPc = "regMatch"
    /\ cycleSent = 1 /\ tx.cls = "reg"
    /\ cyclePend = {"reg", "cmd", "data"}

Serviced(c) == CASE c = "run" -> lastRunCnt [] c = "reg" -> lastReqCnt
                 [] c = "cmd" -> lastCmdCnt [] c = "data" -> lastDataCnt

Requested(c) == CASE c = "run" -> runReqCnt_ [] c = "reg" -> regReqCnt_
                  [] c = "cmd" -> cmdReqCnt_ [] c = "data" -> dataReqCnt_

\* pgpcard_send has just failed for the pending request of class c
FailedSend(c) ==
    /\ Async /\ StageClass(ioPc) = c
    /\ cycleSent = 1 /\ tx.cls = c /\ tx.ret < 0

\* C5 as stated: after a send that failed the serviced counter of the class is
\* not advanced, the request stays pending.
C5_Original ==
    [][\A c \in Classes : FailedSend(c) => Serviced(c)' = Serviced(c)]_vars

\* C5 amended: the return value of the send is ignored; the step after a failed
\* send sets the serviced counter of the class to its request counter, so the
\* request is no longer pending and is not sent again.
C5_FailedSendServiced ==
    [][\A c \in Classes :
          (FailedSend(c) /\ ioPc' # ioPc)
             => /\ Serviced(c)' = Requested(c)
                /\ Serviced(c)' = Requested(c)'
                /\ ioPc' = "loop"]_vars

\* C5 witness: the send of a pending register request has failed
C5_Witness ==
    /\ FailedSend("reg")
    /\ ioPc = "regMatch"
    /\ lastReqCnt # regReqCnt_

\* C6: MultDestPgpMask::transmit repeats the same send (buffer, length, lane,
\* vc) as long as pgpcard_send returns a negative value, leaves the loop on the
\* first non-negative return n and returns 4 * n, never a negative value; the
\* call ends once an attempt succeeds.
C6_SyncRetry ==
    /\ [](link = "MultDestPgpMask" =>
            /\ xmit.pc = "return" => xmit.ret >= 0
            /\ (xmit.pc = "idle" /\ xmit.tries >= 1)
                  => xmit.result = 4 * xmit.ret /\ xmit.result >= 0)
    /\ [][(xmit.pc = "send" /\ xmit.tries >= 1 /\ xmit'.tries = xmit.tries + 1)
             => /\ tx.ret < 0
                /\ tx'.buf = tx.buf /\ tx'.size = tx.size
                /\ tx'.lane = tx.lane /\ tx'.vc = tx.vc]_vars
    /\ [][(xmit.pc = "send" /\ xmit'.tries = xmit.tries + 1)
             => xmit'.pc = (IF tx'.ret < 0 THEN "send" ELSE "return")]_vars
    /\ (xmit.pc = "send") ~> (xmit.pc = "idle")

\* C6 witness: a call that failed at least twice has returned four times the
\* word count of the send that succeeded
C6_Witness ==
    /\ link = "MultDestPgpMask"
    /\ xmit.pc = "idle" /\ xmit.tries >= 3
    /\ xmit.ret > 0 /\ xmit.result = 4 * xmit.ret

\* the trailing word of a frame
StatusOf(f) == f.buf[f.ret]

AllOnes == W(\hFFFF, \hFFFF)

\* C7: a control frame that answers the outstanding register read with a
\* trailing status word that is not zero sets every word of the request's
\* buffer to all ones, the status to that word, and adds 1 to regRespCnt_.
C7_ReadFailure ==
    [][(RxStep /\ Answers(rx') /\ ~regReqWrite_ /\ StatusOf(rx') # Zero)
       => /\ regReqEntry_'.size = regReqEntry_.size
          /\ Len(regReqEntry_'.data) = regReqEntry_.size
          /\ \A i \in 1..regReqEntry_.size : regReqEntry_'.data[i] = AllOnes
          /\ regReqEntry_'.status = StatusOf(rx')
          /\ regRespCnt_' = regRespCnt_ + 1]_vars

\* C7 witness: a read of two words was answered with status 3
C7_Witness ==
    /\ Async /\ rxPc = "loop" /\ fault = "none"
    /\ Clean(rx) /\ SameHeader(rx) /\ rx.ret = 5
    /\ ~regReqWrite_ /\ regReqEntry_.size = 2
    /\ StatusOf(rx) = W(0, 3) /\ regReqEntry_.status = W(0, 3)
    /\ regReqEntry_.data = <<AllOnes, AllOnes>>
    /\ regReqCnt_ = 1 /\ regRespCnt_ = 1

\* C8: once the scheduler has sent a register read of size S, a frame of S + 3
\* words with the header that was sent and status 0 leaves words 2..S+1 of the
\* frame, in order, in the request's buffer, sets the status to 0 and adds 1 to
\* regRespCnt_.
C8_ReadRoundTrip ==
    [][(/\ RxStep /\ Answers(rx')
        /\ lastReqCnt = regReqCnt_
        /\ ~regReqWrite_ /\ StatusOf(rx') = Zero)
       => /\ regReqEntry_'.data = [i \in 1..regReqEntry_.size |-> rx'.buf[i + 2]]
          /\ regReqEntry_'.status = Zero
          /\ regReqEntry_'.size = regReqEntry_.size
          /\ regReqEntry_'.address = regReqEntry_.address
          /\ regRespCnt_' = regRespCnt_ + 1]_vars

\* C8 witness: a read of two words has been sent and answered with two
\* different words
C8_Witness ==
    /\ Async /\ rxPc = "loop" /\ fault = "none"
    /\ Clean(rx) /\ SameHeader(rx) /\ rx.ret = 5
    /\ regBuff_.words[3] = W(0, 1) /\ regBuff_.words[4] = Zero
    /\ ~regReqWrite_ /\ regReqEntry_.size = 2
    /\ StatusOf(rx) = Zero /\ regReqEntry_.status = Zero
    /\ rx.buf[3] # rx.buf[4]
    /\ regReqEntry_.data = <<rx.buf[3], rx.buf[4]>>
    /\ lastReqCnt = 1 /\ regReqCnt_ = 1 /\ regRespCnt_ = 1

\* C9: a control frame that answers an outstanding register write leaves the
\* request's buffer as it is, whatever its payload and status; the status
\* becomes the trailing word of the frame and regRespCnt_ grows by 1.
C9_WriteAck ==
    [][(RxStep /\ Answers(rx') /\ regReqWrite_)
       => /\ regReqEntry_'.data = regReqEntry_.data
          /\ regReqEntry_'.status = StatusOf(rx')
          /\ regRespCnt_' = regRespCnt_ + 1]_vars

\* C9 witness: a write of two words was answered by a frame with another
\* payload and status 3
C9_Witness ==
    /\ Async /\ rxPc = "loop" /\ fault = "none"
    /\ Clean(rx) /\ SameHeader(rx) /\ rx.ret = 5
    /\ regReqWrite_ /\ regReqEntry_.size = 2
    /\ regReqEntry_.data # <<rx.buf[3], rx.buf[4]>>
    /\ regReqEntry_.data \in RegData(2)
    /\ StatusOf(rx) = W(0, 3) /\ regReqEntry_.status = W(0, 3)
    /\ regReqCnt_ = 1 /\ regRespCnt_ = 1

\* the words of a register frame: a write carries the data and a zero, a read
\* the size less one and a zero
WellFormed(buf, n, reg, write) ==
    IF write
    THEN /\ n = reg.size + 3
         /\ Len(buf) = reg.size + 3
         /\ SubSeq(buf, 3, reg.size + 2) = reg.data
         /\ buf[reg.size + 3] = Zero
    ELSE /\ n = 4
         /\ Len(buf) = 4
         /\ buf[3] = ToWord(reg.size - 1)
         /\ buf[4] = Zero

\* C10: in both variants a register write of size S goes out as S + 3 words
\* (two header words, the S data words in order, a zero) and a register read
\* as 4 words with word 2 = S - 1 and word 3 = 0.
C10_FrameLength ==
    /\ [][(Async /\ fault = "none" /\ ioPc = "regSend" /\ ioPc' = "regMatch")
             => /\ tx'.cls = "reg"
                /\ WellFormed(tx'.buf, tx'.size, regReqEntry_, regReqWrite_)]_vars
    /\ [](( /\ link = "MultDestPgpMask" /\ xmit.pc = "send" /\ xmit.tries >= 1
            /\ xmit.type \in {"MultTypeRegisterWrite", "MultTypeRegisterRead"})
             => WellFormed(tx.buf, tx.size, xmit.reg,
                           xmit.type = "MultTypeRegisterWrite"))

\* ------------------------------------------------------------------------
\* Header encoding: register requests of many addresses on both links
\* ------------------------------------------------------------------------
\* addresses that exercise every bit of the 32
HdrAddrs == {Zero, W(0, \h1000), W(\hFFFF, \hFFFF), W(\h8000, \h0003),
             W(\h4000, 0), W(\h1234, \h5678), W(\h00FF, \hFFFF),
             W(\hC000, \h0004), W(\h0100, 0), W(\h3FFF, \hFFFC),
             W(\hA5A5, \h5A5A)}

PostHdr ==
    \E a \in HdrAddrs, n \in 1..MaxSize, write \in BOOLEAN :
       PostRegister(a, Pattern(n, WA, WB), write)

SyncHdrCalls ==
    \E type \in {"MultTypeRegisterWrite", "MultTypeRegisterRead"},
       a \in HdrAddrs, context \in Contexts :
       Transmit(type, Register(a, Pattern(MaxSize, WA, WB), Zero), Zero, <<>>, 0,
                context, W(\h1234, \h5607))

NextHeader ==
    \/ /\ link = "PgpCardG3Link"
       /\ PostHdr \/ IoRegThread
    \/ /\ link = "MultDestPgpMask"
       /\ SyncHdrCalls \/ SyncSend \/ SyncReturn
       /\ UNCHANGED asyncVars

SpecHeader == (Init \/ InitSync) /\ [][NextHeader]_vars

\* bit n of a 32-bit word
Bit32(w, n) == IF n < 16 THEN (w[2] \div (2 ^ n)) % 2
               ELSE (w[1] \div (2 ^ (n - 16))) % 2

\* C11: in word 1 of a register header bit 30 is set exactly for a write, bit 31
\* is clear, and bits 29:0 are (address >> 2) & 0x3FFFFFFF in
\* MultDestPgpMask::transmit (word 0 = context) and address & 0x00FFFFFF in
\* ioHandler (word 0 = 0); a write to 0x00001000 through transmit gives
\* word 1 = 0x40000400.
C11_HeaderWord1 ==
    /\ (Async /\ ioPc = "regSend") =>
          LET w1 == regBuff_.words[2]
              a  == regReqEntry_.address
          IN  /\ regBuff_.words[1] = Zero
              /\ Bit32(w1, 30) = (IF regReqWrite_ THEN 1 ELSE 0)
              /\ Bit32(w1, 31) = 0
              /\ \A i \in 0..29 :
                    Bit32(w1, i) = (IF i < 24 THEN Bit32(a, i) ELSE 0)
    /\ ( /\ link = "MultDestPgpMask" /\ xmit.pc = "send"
         /\ xmit.type \in {"MultTypeRegisterWrite", "MultTypeRegisterRead"}) =>
          LET w1    == xmit.txData[2]
              a     == xmit.reg.address
              write == xmit.type = "MultTypeRegisterWrite"
          IN  /\ xmit.txData[1] = xmit.context
              /\ Bit32(w1, 30) = (IF write THEN 1 ELSE 0)
              /\ Bit32(w1, 31) = 0
              /\ \A i \in 0..29 : Bit32(w1, i) = Bit32(a, i + 2)
              /\ (a = W(0, \h1000) /\ write) => w1 = W(\h4000, \h0400)

\* C11 witness: transmit() has encoded a write to 0x00001000
C11_Witness ==
    /\ link = "MultDestPgpMask" /\ xmit.pc = "send"
    /\ xmit.type = "MultTypeRegisterWrite"
    /\ xmit.reg.address = W(0, \h1000)
    /\ xmit.txData[2] = W(\h4000, \h0400)
    /\ xmit.txData[1] = W(\h1234, \h5678)

\* ------------------------------------------------------------------------
\* Routing: transmit() resolving the destination of every LinkConfig word
\* ------------------------------------------------------------------------
\* the class a type of transmit() is routed as
RouteClass(type) ==
    CASE type \in {"MultTypeRegisterWrite", "MultTypeRegisterRead"} -> "reg"
      [] type = "MultTypeCommand" -> "cmd"
      [] type = "MultTypeData" -> "data"

\* the LinkConfig word bg with the nibble pair of a class set to (lane, vc):
\* register lane 15:12 / vc 11:8, command lane 23:20 / vc 19:16, data lane
\* 31:28 / vc 27:24
PackConfig(cls, lane, vc, bg) ==
    CASE cls = "reg"  -> W(bg[1], lane * 4096 + vc * 256 + (bg[2] % 256))
      [] cls = "cmd"  -> W((bg[1] \div 256) * 256 + lane * 16 + vc, bg[2])
      [] cls = "data" -> W(lane * 4096 + vc * 256 + (bg[1] % 256), bg[2])

\* the other nibbles and the index bits of the word
Backgrounds == {W(\hFFFF, \hFFFF), W(\hA5C3, \h5A3C)}

RouteCalls ==
    \E type \in MultTypes, lane \in 0..15, vc \in 0..15, bg \in Backgrounds :
       Transmit(type, Register(W(0, \h1000), <<WA>>, Zero), W(0, \h0005),
                <<WA>>, 4, Zero, PackConfig(RouteClass(type), lane, vc, bg))

NextRoute ==
    /\ RouteCalls \/ SyncSend \/ SyncReturn
    /\ UNCHANGED asyncVars

SpecRoute == InitSync /\ [][NextRoute]_vars

\* C12: for every lane and vc in 0..15 and each class, transmit() called with a
\* LinkConfig word that carries (lane, vc) in the nibble pair of the class (the
\* word is what packing (lane, vc) into it gives) resolves that lane and vc,
\* whatever the other nibbles and the index bits are, and sends to them.
C12_RouteRoundTrip ==
    /\ [][(xmit.pc = "idle" /\ xmit'.pc = "send")
            => \A lane \in 0..15, vc \in 0..15 :
                  xmit'.config = PackConfig(RouteClass(xmit'.type), lane, vc,
                                            xmit'.config)
                     => xmit'.lane = lane /\ xmit'.vc = vc]_vars
    /\ [][(xmit.pc = "send" /\ xmit'.tries = xmit.tries + 1)
            => tx'.lane = xmit.lane /\ tx'.vc = xmit.vc]_vars

\* C12 witness: a command was sent to lane 15 / vc 0 although every other
\* nibble of the word is set
C12_Witness ==
    /\ link = "MultDestPgpMask" /\ xmit.pc = "return"
    /\ xmit.type = "MultTypeCommand"
    /\ xmit.config = PackConfig("cmd", 15, 0, W(\hFFFF, \hFFFF))
    /\ xmit.config = W(\hFFF0, \hFFFF)
    /\ xmit.lane = 15 /\ xmit.vc = 0
    /\ tx.lane = 15 /\ tx.vc = 0

\* C13: a frame of 1 to 3 words, or with eofe, fifoErr or lengthErr set, adds
\* exactly 1 to errorCount_ and is dropped: dataQueue_, regRespCnt_,
\* unexpCount_ and the request's buffer and status stay as they were, and the
\* thread is back at the top of its loop.
C13_ErrorFrame ==
    [][(RxStep /\ rx'.ret > 0 /\ ~Clean(rx'))
       => /\ errorCount_' = errorCount_ + 1
          /\ dataQueue_' = dataQueue_
          /\ regRespCnt_' = regRespCnt_
          /\ unexpCount_' = unexpCount_
          /\ regReqEntry_' = regReqEntry_
          /\ rxPc' = "loop"]_vars

\* C13 witness: a frame with eofe set that carries the header and the size of
\* the outstanding request was only counted as an error
C13_Witness ==
    /\ Async /\ rxPc = "loop" /\ fault = "none"
    /\ rx.ret >= 4 /\ rx.eofe = 1 /\ rx.fifoErr = 0 /\ rx.lengthErr = 0
    /\ SameHeader(rx)
    /\ regReqEntry_.valid /\ rx.ret - 3 = regReqEntry_.size
    /\ regReqEntry_.status = Zero
    /\ regReqCnt_ = 1 /\ regRespCnt_ = 0
    /\ errorCount_ = 1 /\ unexpCount_ = 0 /\ dataQueue_ = <<>>

\* ------------------------------------------------------------------------
\* The receive side of both links: the register path of the asynchronous
\* link against the frames of the link, and receive() of the synchronous link
\* ------------------------------------------------------------------------
NextRecv ==
    \/ /\ link = "PgpCardG3Link"
       /\ fault # "segv"
       /\ \/ regReqCnt_ < MaxRegs /\ PostReg
          \/ IoRegThread \/ RxThread
    \/ SyncReceive

SpecRecv == (Init \/ InitSync) /\ [][NextRecv]_vars

\* a step that is a call of receive() (the frame is rcv'.frame)
RecvStep ==
    /\ link = "MultDestPgpMask" /\ xmit' = xmit
    /\ <<rxRegister_, rcv>>' # <<rxRegister_, rcv>>

\* (lane, vc) of the frame is a data source of the synchronous link
FromSyncSource(f) ==
    \E src \in SyncDataSources : src[1] = f.lane * 4096 + f.vc * 256

\* C14: in both variants a control frame whose length - 3 is not the expected
\* register size is never copied into the register: rxHandler counts it as
\* unexpected and leaves the request alone, and receive() writes neither data
\* nor status of rxRegister_ for it.
C14_SizeMismatch ==
    /\ [][( /\ RxStep /\ Clean(rx') /\ ~FromDataSource(rx')
            /\ regBuff_.state = "valid" /\ regReqEntry_.valid
            /\ rx'.ret - 3 # regReqEntry_.size)
           => /\ unexpCount_' = unexpCount_ + 1
              /\ regReqEntry_' = regReqEntry_]_vars
    /\ [][( /\ RecvStep /\ Clean(rcv'.frame) /\ ~FromSyncSource(rcv'.frame)
            /\ rcv'.frame.ret - 3 # rxRegister_.size)
           => /\ rxRegister_'.data = rxRegister_.data
              /\ rxRegister_'.status = rxRegister_.status]_vars

\* ------------------------------------------------------------------------
\* Both threads of the asynchronous link, the callers of the four classes and
\* close()
\* ------------------------------------------------------------------------
\* a response, a frame from the data source 0x41, a flagged frame, a frame
\* with another header
FewFrames ==
    {Frame(RdHdr \o <<WA, Zero>>, 2, 1, 0, 0, 0),
     Frame(RdHdr \o <<WA, Zero>>, 2, 0, 0, 0, 0),
     Frame(RdHdr \o <<WA, Zero>>, 2, 1, 1, 0, 0),
     Frame(<<W(0, 1), W(0, \h0010), WA, Zero>>, 2, 1, 0, 0, 0)}

RxFew ==
    \/ RxLoop \/ RxNoData
    \/ \E f \in FewFrames : RxFrame(f)

PostFew ==
    \/ \E op \in OpCodes : PostRun(op)
    \/ \E write \in BOOLEAN : PostRegister(RegAddr, <<WB>>, write)
    \/ \E op \in OpCodes : PostCommand(op)
    \/ \E a \in DataAddrs : PostData(a, 1)

\* cap on the requests posted while both threads run
MaxCalls == 2

NextThreads ==
    /\ fault # "segv"
    /\ \/ Posts < MaxCalls /\ PostFew
       \/ Close \/ IoThread \/ RxFew

SpecThreads == Init /\ [][NextThreads]_vars

\* both threads keep being scheduled for as long as the process lives
SpecShutdown ==
    /\ Init
    /\ [][NextThreads]_vars
    /\ WF_vars(fault # "segv" /\ IoThread)
    /\ WF_vars(fault # "segv" /\ RxFew)

C16_QueueOrder ==
    [][IF RxStep /\ Clean(rx') /\ FromDataSource(rx')
       THEN /\ Len(dataQueue_') = Len(dataQueue_) + 1
            /\ dataQueue_'[Len(dataQueue_')] = rx'.buf
            /\ \A i \in 1..Len(dataQueue_) : dataQueue_'[i] = dataQueue_[i]
       ELSE dataQueue_' = dataQueue_]_vars

\* C16 witness: two different data frames are in the queue, the later one last
C16_Witness ==
    /\ Async /\ rxPc = "loop" /\ rxCount = 2
    /\ Len(dataQueue_) = 2
    /\ dataQueue_[1] # dataQueue_[2]
    /\ dataQueue_[2] = rx.buf
    /\ Clean(rx) /\ FromDataSource(rx)

\* the execution unit that takes a step: every step of a thread moves the
\* thread, a caller moves neither
IoStep == ioPc' # ioPc

RxThreadStep == rxPc' # rxPc

CallerStep == ioPc' = ioPc /\ rxPc' = rxPc

ServicedCnts == <<lastRunCnt, lastReqCnt, lastCmdCnt, lastDataCnt>>

RequestCnts == <<runReqCnt_, regReqCnt_, cmdReqCnt_, dataReqCnt_>>

\* C17 as stated: the serviced counters are written by the scheduler only, the
\* response counters by rxHandler only, the request counters by callers only.
C17_Original ==
    [][/\ ServicedCnts' # ServicedCnts => IoStep
       /\ <<regRespCnt_, cmdRespCnt_, dataRespCnt_>>'
              # <<regRespCnt_, cmdRespCnt_, dataRespCnt_>> => RxThreadStep
       /\ RequestCnts' # RequestCnts => CallerStep]_vars

\* C17 amended: every counter has one writer; the serviced counters and the
\* response counters of the command and data classes are written by the
\* scheduler, the response counter of the register class by rxHandler, the
\* request counters by callers.
C17_SingleWriter ==
    [][/\ ServicedCnts' # ServicedCnts => IoStep
       /\ <<cmdRespCnt_, dataRespCnt_>>' # <<cmdRespCnt_, dataRespCnt_>> => IoStep
       /\ regRespCnt_' # regRespCnt_ => RxThreadStep
       /\ RequestCnts' # RequestCnts => CallerStep]_vars

\* C17 witness: the scheduler has counted the response of a command and
\* rxHandler that of a register request
C17_Witness ==
    /\ Async /\ fault = "none"
    /\ regReqCnt_ = 1 /\ lastReqCnt = 1 /\ regRespCnt_ = 1
    /\ cmdReqCnt_ = 1 /\ lastCmdCnt = 1 /\ cmdRespCnt_ = 1
    /\ ioPc = "loop" /\ rxPc = "loop" /\ rxCount = 1

\* the scheduler has handed the frame of the request in the slot to
\* pgpcard_send: it is past line 224 for it, or has matched the counter already
SentRequest ==
    \/ lastReqCnt = regReqCnt_ /\ ioPc \notin {"start", "regBuild", "regSend"}
    \/ ioPc = "regMatch"

\* C18: rxHandler accepts a frame as the response to the request in the slot
\* (advances regRespCnt_) only after the scheduler has built and sent the frame
\* of that request; a frame that arrives after the request was posted and
\* before regBuff_ was rewritten for it does not complete it.
C18_AcceptAfterSend ==
    [][(Async /\ fault = "none" /\ fault' = "none" /\ RxStep
          /\ regRespCnt_' # regRespCnt_)
       => SentRequest]_vars

\* rxHandler reaches line 114 with the frame it has just received
ReadsRegBuff ==
    /\ RxStep
    /\ ~RxBad(rx')
    /\ ~IsData(dataSource_, rx'.lane, rx'.vc)

\* C19: in every interleaving rxHandler compares a control frame with
\* regBuff_ only while the buffer is allocated: not before the malloc of
\* line 174 and not after the free of line 273.
C19_ReadWhileAllocated ==
    [][ReadsRegBuff => regBuff_.state \in {"raw", "valid"}]_vars

\* ------------------------------------------------------------------------
\* The scheduler under a caller that never stops posting run-control opcodes
\* ------------------------------------------------------------------------
\* width of the run-control counters (uint32_t in the code, lines 156 and
\* 180), cut down so that counting round the width is within reach
CntBits == 2

\* PostRun on a counter of CntBits bits
PostRunWrap(op) ==
    /\ runReqEntry_' = op
    /\ runReqCnt_' = (runReqCnt_ + 1) % (2 ^ CntBits)
    /\ UNCHANGED <<runEnable_, regVars, cmdVars, dataVars, dataSource_, rxVars,
                   regBuff_, ioVars, fault, syncVars>>

PostLower ==
    \/ \E write \in BOOLEAN : PostRegister(RegAddr, <<WB>>, write)
    \/ \E op \in OpCodes : PostCommand(op)
    \/ \E a \in DataAddrs : PostData(a, 1)

NextStarve ==
    \/ \E op \in OpCodes : PostRunWrap(op)
    \/ regReqCnt_ + cmdReqCnt_ + dataReqCnt_ < MaxCalls /\ PostLower
    \/ Close \/ IoThread

\* the ioHandler thread keeps being scheduled
SpecStarve == Init /\ [][NextStarve]_vars /\ WF_vars(IoThread)

\* C20: while the scheduler keeps running, every pending register, command
\* or data request is eventually handed to pgpcard_send, however run-control
\* and other higher-priority requests keep being posted.
C20_EventuallySent ==
    \A c \in {"reg", "cmd", "data"} :
       (runEnable_ /\ ioPc # "start" /\ c \in Pending)
          ~> (~runEnable_ \/ tx.cls = c)

\* C21: whenever receive() of the synchronous link returns an error (-1) or
\* no data (0), rxRegister_ is left completely unchanged: address, data and
\* status.
C21_ErrorLeavesRegister ==
    [][(RecvStep /\ rcv'.result \in {-1, 0}) => rxRegister_' = rxRegister_]_vars

====
